---- MODULE Spec2Model ----
(***************************************************************************)
(* VibeList AI (src/app.py): a Streamlit script that logs a user into      *)
(* Spotify, asks an LLM for songs one at a time, verifies every            *)
(* suggestion against the Spotify search endpoint and writes the verified  *)
(* tracks to a new playlist.                                               *)
(*                                                                         *)
(* The model follows one browser session.  A script run (Streamlit runs    *)
(* the file top to bottom on every event) is one action up to the point    *)
(* where generate_verified_song_list starts; the loop of that function is  *)
(* one action per iteration, its return is one action and the caller's     *)
(* handling of the returned list is one action.  The LLM and the Spotify   *)
(* transport are external: their answers are drawn with \E.  The Spotify   *)
(* catalog is chosen in Init and never changes.                            *)
(***************************************************************************)
EXTENDS Integers, Sequences, FiniteSets, TLC

\* Largest num_songs explored.  The parameter defaults to 15 (app.py:138) and
\* the Generate handler passes the default; the loop is checked here for
\* every value 0..MaxSongs.
MaxSongs == 2

\* Longest track_uris given to create_spotify_playlist on its own: two full
\* chunks and one more track.
MaxListLen == 201

\* chunk_size of create_spotify_playlist (app.py:238)
chunk_size == 100

\* limit= of the two sp_client.search calls (app.py:119, app.py:125)
exact_limit == 1
broad_limit == 5

(***************************************************************************)
(* Values                                                                  *)
(***************************************************************************)
\* A key that is absent from a JSON object, and the empty string.
Missing == "<missing>"
Empty == ""
\* The literal the clarification prompt asks for when no option fits (app.py:91)
NoneStr == "None"

Tracks == {"t1", "t2"}
Artists == {"a1", "a2"}
\* The artists the LLM names in a first suggestion; a clarification may name
\* any artist.
SuggestedArtists == {"a1"}

\* Python truthiness of the value of dict.get(key)
Falsy(x) == x \in {Missing, Empty}

\* The text of the vibe box: a sequence of characters.
Vibes == {<<>>, <<" ">>, <<"v">>}

\* An entry of a search result: a track, or (null) a None in the items list;
\* the name of a null entry is the track query whose result holds it.
Item(uri, name, artists) ==
    [uri |-> uri, name |-> name, artists |-> artists, null |-> FALSE]

NullItem(uri, name) == [uri |-> uri, name |-> name, artists |-> <<>>, null |-> TRUE]

\* Every track Spotify might hold, in the order its search ranks them.
AllItems == <<
    Item("u1", "t1", <<"a1">>),
    Item("u2", "t2", <<"a2">>),
    Item("u3", "t2", <<>>),
    NullItem("n1", "t3"),
    Item("u4", "t3", <<>>),
    Item("u5", "t3", <<"a1">>),
    Item("u6", "t3", <<"a2">>),
    Item("u7", "t3", <<"a1">>),
    Item("u8", "t3", <<"a2">>),
    Item("u9", "t3", <<"a1">>) >>

AllUris == {AllItems[i].uri : i \in 1..Len(AllItems)}

\* The catalogs explored: every track, none, and one where the only track
\* named t2 has no artist.
Catalogs == {AllUris, {"u1", "u3"}, {}}

Min(a, b) == IF a < b THEN a ELSE b

InSeq(x, s) == \E i \in 1..Len(s) : s[i] = x

(***************************************************************************)
(* The LLM (genai): what generate_content can give back                    *)
(***************************************************************************)
\* "exception": generate_content raises; "badjson": text json.loads rejects;
\* "null": JSON null; "falsy": [], 0, "", false or {}; "nonobject": a non-empty
\* array, a non-zero number, a non-empty string or true; "object": a JSON
\* object with at least one key.
RawKinds == {"exception", "badjson", "null", "falsy", "nonobject"}

RawValue(k) == [kind |-> k, track |-> Missing, artist |-> Missing]

RawObjects(tracks, artists) ==
    {[kind |-> "object", track |-> t, artist |-> a] : t \in tracks, a \in artists}

RawSuggestions ==
    {RawValue(k) : k \in RawKinds}
        \cup RawObjects(Tracks \cup {Missing, Empty},
                         SuggestedArtists \cup {Missing, Empty})

RawClarifications ==
    {RawValue(k) : k \in RawKinds}
        \cup RawObjects(Tracks \cup {Missing, NoneStr}, Artists \cup {Missing})

\* Python values: None, a falsy value, a truthy value that is no dict, a dict.
PyNone == [kind |-> "None", track |-> Missing, artist |-> Missing]

Truthy(v) == v.kind \in {"nonobject", "dict"}

\* json.loads(response.text)
json_loads(raw) ==
    CASE raw.kind = "null"   -> PyNone
      [] raw.kind = "object" -> [raw EXCEPT !.kind = "dict"]
      [] OTHER               -> raw

\* get_next_song_suggestion: the value of json.loads, None on any exception
get_next_song_suggestion(raw) ==
    IF raw.kind \in {"exception", "badjson"} THEN PyNone ELSE json_loads(raw)

\* get_clarification_from_llm: .get on a value that is no dict raises inside
\* the try and gives None; {"track": "None"} gives None.
get_clarification_from_llm(raw) ==
    IF raw.kind \in {"exception", "badjson"} THEN PyNone
    ELSE LET clarified_choice == json_loads(raw) IN
         IF clarified_choice.kind \in {"None", "nonobject"} THEN PyNone
         ELSE IF clarified_choice.kind = "falsy" THEN clarified_choice
         ELSE IF clarified_choice.track = NoneStr THEN PyNone
         ELSE clarified_choice

\* f"{suggestion['track']} by {suggestion['artist']}"
suggestion_str(suggestion) == suggestion.track \o " by " \o suggestion.artist

(***************************************************************************)
(* Spotify search and verify_song_on_spotify                               *)
(***************************************************************************)
CatalogItems(cat) == SelectSeq(AllItems, LAMBDA it : it.uri \in cat)

Limit(s, n) == SubSeq(s, 1, Min(n, Len(s)))

HasArtist(it, artist) == \E i \in 1..Len(it.artists) : it.artists[i] = artist

\* sp_client.search(q='track:"T" artist:"A"', type='track', limit=1)
search_exact(cat, track, artist) ==
    Limit(SelectSeq(CatalogItems(cat),
                    LAMBDA it : it.name = track /\ HasArtist(it, artist)),
          exact_limit)

\* sp_client.search(q='track:"T"', type='track', limit=5)
search_broad(cat, track) ==
    Limit(SelectSeq(CatalogItems(cat), LAMBDA it : it.name = track), broad_limit)

\* [{'track': item['name'], 'artist': item['artists'][0]['name']} for item in
\*  items if item and item['artists']]
broad_options(items) ==
    LET kept == SelectSeq(items, LAMBDA it : ~it.null /\ it.artists # <<>>)
    IN  [i \in 1..Len(kept) |-> [track |-> kept[i].name, artist |-> kept[i].artists[1]]]

Verification(st, item, opts, n) ==
    [status |-> st, item |-> item, options |-> opts, calls |-> n]

\* Variant of verify_song_on_spotify: the options are not tested, so a broad
\* search with no usable item still asks for a clarification.
verify_without_options_test(suggestion, cat, fail) ==
    IF suggestion.track = Missing \/ suggestion.artist = Missing
    THEN Verification("RAISED", <<>>, <<>>, 0)
    ELSE IF fail = "exact" THEN Verification("RAISED", <<>>, <<>>, 1)
    ELSE LET results_exact == search_exact(cat, suggestion.track, suggestion.artist) IN
         IF results_exact # <<>>
         THEN Verification("FOUND", <<results_exact[1]>>, <<>>, 1)
         ELSE IF fail = "broad" THEN Verification("RAISED", <<>>, <<>>, 2)
         ELSE LET results_broad == search_broad(cat, suggestion.track)
                  options == broad_options(results_broad)
              IN  IF results_broad # <<>>
                  THEN Verification("NEEDS_CLARIFICATION", <<>>, options, 2)
                  ELSE Verification("NOT_FOUND", <<>>, <<>>, 2)

\* fail names the search call that raises: "none", "exact" or "broad".
\* status RAISED: an exception leaves the function (a KeyError on a missing
\* key of the suggestion, or the transport's error).
verify_song_on_spotify(suggestion, cat, fail) ==
    IF suggestion.track = Missing \/ suggestion.artist = Missing
    THEN Verification("RAISED", <<>>, <<>>, 0)
    ELSE IF fail = "exact" THEN Verification("RAISED", <<>>, <<>>, 1)
    ELSE LET results_exact == search_exact(cat, suggestion.track, suggestion.artist) IN
         IF results_exact # <<>>
         THEN Verification("FOUND", <<results_exact[1]>>, <<>>, 1)
         ELSE IF fail = "broad" THEN Verification("RAISED", <<>>, <<>>, 2)
         ELSE LET results_broad == search_broad(cat, suggestion.track)
                  options == broad_options(results_broad)
              IN  IF results_broad # <<>> /\ options # <<>>
                  THEN Verification("NEEDS_CLARIFICATION", <<>>, options, 2)
                  ELSE Verification("NOT_FOUND", <<>>, <<>>, 2)

SearchFailures == {"none", "exact", "broad"}

(***************************************************************************)
(* State                                                                   *)
(***************************************************************************)
VARIABLES
    token_info,            \* st.session_state['token_info']: "absent", "valid", "expired"
    query_code,            \* "code" in st.query_params
    screen,                \* what the last finished script run rendered: "none", "login", "main"
    pc,                    \* "idle", "rerun", "gen", "returned", "raised"
    catalog,               \* the uris Spotify holds
    num_songs,             \* parameter of generate_verified_song_list
    vibe_input,            \* the text of the vibe box in the run that pressed Generate
    verified_tracks,       \* local of generate_verified_song_list
    rejected_suggestions,  \* local of generate_verified_song_list
    attempt,               \* iterations of the for loop started so far
    verified_uris,         \* the list generate_verified_song_list returned
    shown,                 \* the st.info/warning/error/success/header of the current run
    sp_client,             \* spotipy.Spotify(...) was constructed in the current run
    token_used,            \* the token the client was constructed with ("none": no client)
    llm_calls,             \* calls of get_next_song_suggestion in the current run
    sp_called,             \* sp_client.search was called in the current run
    exact_found,           \* uris that were the first item of a non-empty exact search
    sp_raised,             \* a Spotify search raised in the current run
    retried,               \* verify_song_on_spotify was given a rejected suggestion
    create_args,           \* the track_uris of each create_spotify_playlist call of the run
    add_calls,             \* the playlist_add_items calls of the current run
    create_result,         \* the last create_spotify_playlist call: its inputs, its return
    logged_out,            \* Logout was pressed and no code was exchanged since
    first_run,             \* vibe and result of the first generation that returned
    last_verification      \* the last call of verify_song_on_spotify made on its own

vars == <<token_info, query_code, screen, pc, catalog, num_songs, vibe_input,
          verified_tracks, rejected_suggestions, attempt, verified_uris, shown,
          sp_client, token_used, llm_calls, sp_called, exact_found, sp_raised, retried,
          create_args, add_calls, create_result, logged_out, first_run, last_verification>>

\* what no step of the script changes
fixed == <<catalog, num_songs, last_verification>>

session == <<token_info, query_code, logged_out>>
loop_locals == <<verified_tracks, rejected_suggestions, attempt, llm_calls,
                 sp_called, exact_found, sp_raised, retried>>
playlist == <<create_args, add_calls, create_result>>

NoCreate == [called |-> FALSE, url |-> FALSE, fail_at |-> 0, playlist |-> "p1"]

NoVerification ==
    [called |-> FALSE, suggestion |-> PyNone, fail |-> "none",
     result |-> Verification("NOT_FOUND", <<>>, <<>>, 0)]

\* the state of a new session, the catalog apart
InitSession ==
    /\ token_info = "absent"
    /\ query_code = FALSE
    /\ screen = "none"
    /\ pc = "idle"
    /\ num_songs \in 0..MaxSongs
    /\ vibe_input = <<>>
    /\ verified_tracks = <<>>
    /\ rejected_suggestions = <<>>
    /\ attempt = 0
    /\ verified_uris = <<>>
    /\ shown = {}
    /\ sp_client = FALSE
    /\ token_used = "none"
    /\ llm_calls = 0
    /\ sp_called = FALSE
    /\ exact_found = {}
    /\ sp_raised = FALSE
    /\ retried = FALSE
    /\ create_args = <<>>
    /\ add_calls = <<>>
    /\ create_result = NoCreate
    /\ logged_out = FALSE
    /\ first_run = [set |-> FALSE, vibe |-> <<>>, uris |-> <<>>]
    /\ last_verification = NoVerification

Init == catalog \in Catalogs /\ InitSession

(***************************************************************************)
(* generate_verified_song_list: one iteration of the loop                  *)
(***************************************************************************)
\* max_attempts = num_songs * 4
max_attempts(n) == n * 4

\* Variants of the loop condition: without the break, with a range one too
\* long, and with the condition tested after the body.
LoopContinuesNoBreak(att, vt, n) == att < max_attempts(n)

LoopContinuesRangePlusOne(att, vt, n) == att <= max_attempts(n) /\ Len(vt) < n

LoopContinuesTestAtEnd(att, vt, n) ==
    att = 0 \/ (att < max_attempts(n) /\ Len(vt) < n)

\* Variant of the loop condition: the break is taken one track too late.
LoopContinuesBreakLate(att, vt, n) == att < max_attempts(n) /\ Len(vt) <= n

\* for attempt in range(max_attempts): if len(verified_tracks) >= num_songs: break
LoopContinues(att, vt, n) == att < max_attempts(n) /\ Len(vt) < n

\* the dict appended to verified_tracks
TrackRecord(item) ==
    [uri |-> item.uri, track |-> item.name, artist |-> item.artists[1]]

\* What one iteration leaves: the two lists, whether an exception left the
\* function, the searches made, the uris exact searches found, and whether a
\* search raised; retried tells that a suggestion whose string was in
\* rejected_suggestions went to verify_song_on_spotify (line 162 excludes it
\* for the LLM's suggestion).
Outcome(vt, rej, raised, calls, found, spr) ==
    [verified |-> vt, rejected |-> rej, raised |-> raised, calls |-> calls,
     found |-> found, sp_raised |-> spr, retried |-> FALSE]

\* line 186: the clarified choice goes to verify_song_on_spotify as it is
PassedClarified(o, clarified_suggestion, rej) ==
    [o EXCEPT !.retried = InSeq(suggestion_str(clarified_suggestion), rej)]

FoundUris(v) == {v.item[i].uri : i \in 1..Len(v.item)}

TransportRaised(v) == v.status = "RAISED" /\ v.calls > 0

\* Variant of the NEEDS_CLARIFICATION branch: the clarified choice is taken
\* from the broad search without the final exact verification.
ClarifiedBranchUnverified(vt, rej, s, cat, rawc, fail2, calls0) ==
    LET clarified_suggestion == get_clarification_from_llm(rawc)
        items == IF Truthy(clarified_suggestion)
                 THEN SelectSeq(search_broad(cat, clarified_suggestion.track),
                                LAMBDA it : ~it.null /\ it.artists # <<>>)
                 ELSE <<>>
    IN  IF items # <<>>
        THEN Outcome(Append(vt, TrackRecord(items[1])), rej, FALSE, calls0 + 1, {}, FALSE)
        ELSE Outcome(vt, Append(rej, s), FALSE, calls0, {}, FALSE)

\* lines 179-198: the NEEDS_CLARIFICATION branch, after a first verification
\* that made calls0 searches
ClarifiedBranch(vt, rej, s, cat, rawc, fail2, calls0) ==
    LET clarified_suggestion == get_clarification_from_llm(rawc) IN
    IF Truthy(clarified_suggestion)
    THEN LET final_verification == verify_song_on_spotify(clarified_suggestion, cat, fail2)
             calls == calls0 + final_verification.calls
             spr == TransportRaised(final_verification)
         IN  PassedClarified(
                 IF final_verification.status = "FOUND"
                 THEN Outcome(Append(vt, TrackRecord(final_verification.item[1])), rej,
                              FALSE, calls, FoundUris(final_verification), spr)
                 ELSE Outcome(vt, Append(rej, s), FALSE, calls, {}, spr),
                 clarified_suggestion, rej)
    ELSE Outcome(vt, Append(rej, s), FALSE, calls0, {}, FALSE)

\* lines 167-206: the try block, for a first search that fails as fail1 says
VerifyBranch(vt, rej, suggestion, cat, fail1) ==
    LET s == suggestion_str(suggestion)
        verification == verify_song_on_spotify(suggestion, cat, fail1)
    IN  CASE verification.status = "FOUND" ->
                {Outcome(Append(vt, TrackRecord(verification.item[1])), rej, FALSE,
                         verification.calls, FoundUris(verification), FALSE)}
          [] verification.status = "NEEDS_CLARIFICATION" ->
                {ClarifiedBranch(vt, rej, s, cat, rawc, fail2, verification.calls) :
                    rawc \in RawClarifications, fail2 \in SearchFailures}
          [] verification.status = "NOT_FOUND" ->
                {Outcome(vt, Append(rej, s), FALSE, verification.calls, {}, FALSE)}
          [] OTHER ->
                {Outcome(vt, Append(rej, s), FALSE, verification.calls, {},
                         TransportRaised(verification))}

\* lines 155-206: the body of the loop for the LLM answer raw
Iteration(vt, rej, cat, raw) ==
    LET suggestion == get_next_song_suggestion(raw)
        continue == {Outcome(vt, rej, FALSE, 0, {}, FALSE)}
    IN  IF ~Truthy(suggestion) THEN continue
        ELSE IF suggestion.kind # "dict"
        THEN {Outcome(vt, rej, TRUE, 0, {}, FALSE)}    \* .get on a list: AttributeError
        ELSE IF Falsy(suggestion.track) \/ Falsy(suggestion.artist) THEN continue
        ELSE IF InSeq(suggestion_str(suggestion), rej) THEN continue
        ELSE UNION {VerifyBranch(vt, rej, suggestion, cat, fail1) :
                        fail1 \in SearchFailures}

GenIteration ==
    /\ pc = "gen"
    /\ LoopContinues(attempt, verified_tracks, num_songs)
    /\ \E raw \in RawSuggestions :
         \E o \in Iteration(verified_tracks, rejected_suggestions, catalog, raw) :
            /\ attempt' = attempt + 1
            /\ llm_calls' = llm_calls + 1
            /\ verified_tracks' = o.verified
            /\ rejected_suggestions' = o.rejected
            /\ sp_called' = (sp_called \/ o.calls > 0)
            /\ exact_found' = exact_found \cup o.found
            /\ sp_raised' = (sp_raised \/ o.sp_raised)
            /\ retried' = (retried \/ o.retried)
            /\ pc' = IF o.raised THEN "raised" ELSE "gen"
    /\ UNCHANGED <<session, screen, fixed, vibe_input, verified_uris,
                   shown, sp_client, token_used, playlist, first_run>>

\* lines 209-213: the loop is over
ShortWarning(vt, n) == IF Len(vt) < n THEN {"warning_short"} ELSE {}

UrisOf(vt) == [i \in 1..Len(vt) |-> vt[i].uri]

GenReturn ==
    /\ pc = "gen"
    /\ ~LoopContinues(attempt, verified_tracks, num_songs)
    /\ shown' = shown \cup ShortWarning(verified_tracks, num_songs)
    /\ verified_uris' = UrisOf(verified_tracks)
    /\ pc' = "returned"
    /\ UNCHANGED <<session, screen, fixed, vibe_input, loop_locals,
                   sp_client, token_used, playlist, first_run>>

(***************************************************************************)
(* create_spotify_playlist                                                 *)
(***************************************************************************)
NumChunks(track_uris) == (Len(track_uris) + chunk_size - 1) \div chunk_size

\* Variant of the chunking: only full chunks, a shorter last one is left out.
ChunksFullOnly(track_uris) ==
    [k \in 1..(Len(track_uris) \div chunk_size) |->
        SubSeq(track_uris, (k - 1) * chunk_size + 1, k * chunk_size)]

\* track_uris[i:i+chunk_size] for i in range(0, len(track_uris), chunk_size)
Chunks(track_uris) ==
    [k \in 1..NumChunks(track_uris) |->
        SubSeq(track_uris, (k - 1) * chunk_size + 1,
               Min(k * chunk_size, Len(track_uris)))]

\* fail_at names the collaborator call that raises: 0 none, 1 current_user,
\* 2 user_playlist_create, 2 + k the k-th playlist_add_items.
CreateFailures(track_uris) == 0..(2 + NumChunks(track_uris))

\* playlist['id'] of the playlist user_playlist_create returns
PlaylistIds == {"p1", "p2"}

\* sp_client.playlist_add_items(playlist['id'], chunk)
AddItems(pid, chunks) ==
    [k \in 1..Len(chunks) |-> [playlist |-> pid, items |-> chunks[k]]]

\* Variant of create_spotify_playlist: a chunk that cannot be added is
\* skipped, the others are added and the URL is returned.
create_playlist_skipping_failed_chunk(track_uris, pid, fail_at) ==
    LET chunks == Chunks(track_uris) IN
    IF fail_at \in {1, 2}
    THEN [url |-> FALSE, calls |-> <<>>, msgs |-> {"error_playlist"}]
    ELSE [url |-> TRUE, calls |-> AddItems(pid, chunks), msgs |-> {}]

\* url: a URL was returned (None otherwise); calls: the playlist_add_items
\* calls made, in order, the one that raised included
create_spotify_playlist(track_uris, pid, fail_at) ==
    LET chunks == Chunks(track_uris) IN
    IF fail_at = 0
    THEN [url |-> TRUE, calls |-> AddItems(pid, chunks), msgs |-> {}]
    ELSE [url |-> FALSE,
          calls |-> IF fail_at > 2
                    THEN AddItems(pid, SubSeq(chunks, 1, fail_at - 2))
                    ELSE <<>>,
          msgs |-> {"error_playlist"}]

(***************************************************************************)
(* The script, top to bottom                                               *)
(***************************************************************************)
Results == {"ok", "fail"}

RunState(tok, code, end, client, used, exchanged, msgs) ==
    [token |-> tok, code |-> code, end |-> end, client |-> client, used |-> used,
     exchanged |-> exchanged, msgs |-> msgs]

\* auth_manager.is_token_expired(token_info)
is_token_expired(tok) == tok = "expired"

\* auth_manager.refresh_access_token(token_info['refresh_token']), when it
\* does not raise
refresh_access_token(tok) == "valid"

\* Variant of lines 277-280: the local token_info is not reassigned after the
\* refresh, the client gets the token read at line 275.
TokenForClientStale(tok) == tok

\* lines 275-280: the local token_info that spotipy.Spotify(auth=...) gets
TokenForClient(tok) ==
    IF is_token_expired(tok) THEN refresh_access_token(tok) ELSE tok

\* lines 269-294, for a session without a pending st.rerun() of line 265
MainLogic(tok, code, refr, cu, msgs) ==
    IF tok = "absent"
    THEN RunState(tok, code, "login", FALSE, "none", FALSE, msgs \cup {"info_login"})
    ELSE IF is_token_expired(tok) /\ refr = "fail"
    THEN RunState("absent", code, "rerun", FALSE, "none", FALSE,
                  msgs \cup {"error_expired"})
    ELSE IF cu = "fail"
    THEN RunState("absent", code, "rerun", TRUE, TokenForClient(tok), FALSE,
                  msgs \cup {"error_connect"})
    ELSE RunState(IF is_token_expired(tok) THEN refresh_access_token(tok) ELSE tok,
                  code, "main", TRUE, TokenForClient(tok), FALSE,
                  msgs \cup {"success_logged_in"})

\* lines 258-294: the authentication flow, then the main logic
RunTop(tok, code, exch, refr, cu) ==
    IF code /\ exch = "ok"
    THEN RunState("valid", FALSE, "rerun", FALSE, "none", TRUE, {})
    ELSE MainLogic(tok, code, refr, cu, IF code THEN {"error_token"} ELSE {})

\* if not vibe_input (line 306)
VibeGiven(v) == v # <<>>

\* Variant of Logout: the token stays in the session state.
LogoutKeepsToken(tok) == tok

\* del st.session_state['token_info'] (line 326)
LogoutEffect(tok) == "absent"

\* One script run for the event ev ("none", "generate", "logout") with the
\* vibe box holding v, from a session holding tok and query parameters code.
Run(ev, v, tok, code) ==
    \E exch \in Results, refr \in Results, cu \in Results :
        LET top == RunTop(tok, code, exch, refr, cu)
            pressed == IF top.end = "main" THEN ev ELSE "none"
        IN  /\ query_code' = top.code
            /\ sp_client' = top.client
            /\ token_used' = top.used
            /\ token_info' = IF pressed = "logout" THEN LogoutEffect(top.token)
                             ELSE top.token
            /\ logged_out' = IF top.exchanged THEN FALSE
                             ELSE (logged_out \/ pressed = "logout")
            /\ screen' = IF top.end = "rerun" THEN screen ELSE top.end
            /\ vibe_input' = IF pressed = "generate" THEN v ELSE <<>>
            /\ shown' = top.msgs \cup
                          (CASE pressed = "generate" /\ ~VibeGiven(v) -> {"warning_vibe"}
                             [] pressed = "logout" -> {"success_logged_out"}
                             [] OTHER -> {})
            /\ pc' = CASE top.end = "rerun" -> "rerun"
                       [] pressed = "logout" -> "rerun"
                       [] pressed = "generate" ->
                            IF VibeGiven(v) THEN "gen" ELSE "done"
                       [] OTHER -> "idle"
            /\ verified_tracks' = <<>>
            /\ rejected_suggestions' = <<>>
            /\ attempt' = 0
            /\ llm_calls' = 0
            /\ sp_called' = FALSE
            /\ exact_found' = {}
            /\ sp_raised' = FALSE
            /\ retried' = FALSE
            /\ verified_uris' = <<>>
            /\ create_args' = <<>>
            /\ add_calls' = <<>>
            /\ create_result' = NoCreate
            /\ UNCHANGED <<fixed, first_run>>

\* The browser loads the page: a new session, the query parameters as they are.
PageLoad == pc = "idle" /\ Run("none", <<>>, "absent", query_code)

\* Spotify redirects the browser to REDIRECT_URI?code=...: a new session.
Redirect == pc = "idle" /\ Run("none", <<>>, "absent", TRUE)

\* st.rerun()
Rerun == pc = "rerun" /\ Run("none", <<>>, token_info, query_code)

\* The user edits the vibe box: a run with no button pressed.
Interact == pc = "idle" /\ screen = "main" /\ Run("none", <<>>, token_info, query_code)

PressGenerate ==
    /\ pc = "idle"
    /\ screen = "main"
    /\ \E v \in Vibes : Run("generate", v, token_info, query_code)

PressLogout ==
    /\ pc = "idle"
    /\ screen = "main"
    /\ Run("logout", <<>>, token_info, query_code)

\* auth_manager.is_token_expired(token_info) becomes true as time passes
TokenExpires ==
    /\ pc = "idle"
    /\ token_info = "valid"
    /\ token_info' = "expired"
    /\ UNCHANGED <<query_code, logged_out, screen, pc, fixed,
                   vibe_input, verified_uris, shown, sp_client, token_used, loop_locals,
                   playlist, first_run>>

\* Variant of the handler: the playlist is created whatever was returned.
AlwaysCreate(uris) == TRUE

\* if verified_uris: (line 313)
ShouldCreate(uris) == uris # <<>>

\* lines 313-322: the handler's branch on the list uris, in a run that has
\* shown msgs and made the create_spotify_playlist calls args so far
CreateAndShow(uris, msgs, args) ==
    IF ShouldCreate(uris)
    THEN \E pid \in PlaylistIds, fail_at \in CreateFailures(uris) :
            LET r == create_spotify_playlist(uris, pid, fail_at) IN
            /\ create_args' = Append(args, uris)
            /\ add_calls' = r.calls
            /\ create_result' = [called |-> TRUE, url |-> r.url,
                                 fail_at |-> fail_at, playlist |-> pid]
            /\ shown' = msgs \cup r.msgs \cup
                          (IF r.url THEN {"playlist_ready"} ELSE {})
    ELSE /\ shown' = msgs \cup {"error_no_songs"}
         /\ create_args' = args
         /\ UNCHANGED <<add_calls, create_result>>

\* lines 313-322: what the Generate handler does with the returned list
HandleResult ==
    /\ pc = "returned"
    /\ CreateAndShow(verified_uris, shown, create_args)
    /\ first_run' = IF first_run.set \/ sp_raised THEN first_run
                    ELSE [set |-> TRUE, vibe |-> vibe_input, uris |-> verified_uris]
    /\ pc' = "done"
    /\ UNCHANGED <<session, screen, fixed, vibe_input, verified_uris,
                   sp_client, token_used, loop_locals>>

\* The run ends: after the handler the rest of the page is rendered; an
\* exception that left generate_verified_song_list ends the run where it is.
RunEnds ==
    /\ pc \in {"done", "raised"}
    /\ pc' = "idle"
    /\ verified_tracks' = <<>>
    /\ rejected_suggestions' = <<>>
    /\ attempt' = 0
    /\ llm_calls' = 0
    /\ sp_called' = FALSE
    /\ exact_found' = {}
    /\ sp_raised' = FALSE
    /\ retried' = FALSE
    /\ verified_uris' = <<>>
    /\ vibe_input' = <<>>
    /\ create_args' = <<>>
    /\ add_calls' = <<>>
    /\ create_result' = NoCreate
    /\ UNCHANGED <<session, screen, fixed, shown, sp_client, token_used, first_run>>

Next ==
    \/ PageLoad
    \/ Redirect
    \/ Rerun
    \/ Interact
    \/ PressGenerate
    \/ PressLogout
    \/ TokenExpires
    \/ GenIteration
    \/ GenReturn
    \/ HandleResult
    \/ RunEnds

Spec == Init /\ [][Next]_vars

(***************************************************************************)
(* verify_song_on_spotify on its own: every catalog, every suggestion      *)
(***************************************************************************)
VerifyTracks == Tracks \cup {"t3", Missing, Empty}

VerifySuggestions ==
    {[kind |-> "dict", track |-> t, artist |-> a] :
        t \in VerifyTracks, a \in Artists \cup {"a3", Missing}}

VerifyCall ==
    /\ \E suggestion \in VerifySuggestions, fail \in SearchFailures :
          last_verification' =
              [called |-> TRUE, suggestion |-> suggestion, fail |-> fail,
               result |-> verify_song_on_spotify(suggestion, catalog, fail)]
    /\ UNCHANGED <<session, screen, pc, catalog, num_songs, vibe_input,
                   verified_uris, shown, sp_client, token_used, loop_locals, playlist, first_run>>

VerifyInit == catalog \in SUBSET AllUris /\ num_songs = 0 /\ InitSession

VerifySpec == VerifyInit /\ [][VerifyCall]_vars

(***************************************************************************)
(* create_spotify_playlist and its caller on lists of every length         *)
(***************************************************************************)
UriList(n) == [i \in 1..n |-> "u" \o ToString(i)]

PlaylistCall ==
    /\ ~create_result.called
    /\ \E n \in 0..MaxListLen : CreateAndShow(UriList(n), {}, <<>>)
    /\ UNCHANGED <<session, screen, pc, fixed, vibe_input, verified_uris,
                   sp_client, token_used, loop_locals, first_run>>

PlaylistInit == catalog = {} /\ num_songs = 0 /\ InitSession

PlaylistSpec == PlaylistInit /\ [][PlaylistCall]_vars

\* generate_verified_song_list runs to its end once called: every call it
\* makes is a blocking call that returns or raises.
FairSpec == Spec /\ WF_vars(GenIteration) /\ WF_vars(GenReturn)

(***************************************************************************)
(* Properties                                                              *)
(***************************************************************************)
Distinct(s) == \A i, j \in 1..Len(s) : i # j => s[i] # s[j]

InFunction == pc \in {"gen", "returned", "raised"}

\* C1: the list being built never holds more than num_songs tracks, in every
\* state of the loop, and the returned list is no longer than num_songs.
C1_CountBound ==
    /\ Len(verified_tracks) <= num_songs
    /\ Len(verified_uris) <= num_songs

C1_Witness ==
    /\ pc = "returned"
    /\ num_songs > 0
    /\ Len(verified_uris) = num_songs
    /\ attempt < max_attempts(num_songs)

\* C2: a uri already in verified_tracks is never appended again, so the list
\* being built and the returned list hold no uri twice.
C2_NoRepeatedUri ==
    /\ Distinct(UrisOf(verified_tracks))
    /\ Distinct(verified_uris)

\* C3: no exception leaves generate_verified_song_list, whatever the LLM and
\* Spotify answer.
C3_NoExceptionPropagates == pc # "raised"

\* C4: the loop makes at most 4 * num_songs iterations and as many calls of
\* get_next_song_suggestion, and generate_verified_song_list always ends.
C4_SafetyBreak ==
    /\ [](attempt <= 4 * num_songs /\ llm_calls <= 4 * num_songs)
    /\ (pc = "gen" ~> pc # "gen")

C4_Witness ==
    /\ pc = "returned"
    /\ num_songs > 0
    /\ llm_calls = 4 * num_songs
    /\ Len(verified_uris) < num_songs

\* The uris for which some exact track+artist search of the catalog answers
\* with that track first.
ExactAnswers ==
    {search_exact(catalog, t, a)[1].uri :
        <<t, a>> \in {q \in Tracks \X Artists : search_exact(catalog, q[1], q[2]) # <<>>}}

\* C5: every uri in the list being built and in the returned list was the
\* first item of a non-empty exact search made in this run (status FOUND).
C5_VerifiedOnSpotify ==
    /\ \A i \in 1..Len(verified_tracks) : verified_tracks[i].uri \in exact_found
    /\ \A i \in 1..Len(verified_uris) : verified_uris[i] \in exact_found
    /\ exact_found \subseteq ExactAnswers

\* a clarified suggestion was verified and added
C5_Witness ==
    /\ pc = "returned"
    /\ Len(verified_uris) > 0
    /\ Len(rejected_suggestions) = 0
    /\ catalog = AllUris
    /\ verified_uris[1] = "u2"
    /\ llm_calls = 1

\* C6: with num_songs = 0 the function returns [] and calls neither the LLM
\* nor Spotify.
C6_CountZero ==
    (num_songs = 0 /\ InFunction) =>
        /\ pc # "raised"
        /\ verified_tracks = <<>>
        /\ verified_uris = <<>>
        /\ llm_calls = 0
        /\ ~sp_called

C6_Witness == num_songs = 0 /\ pc = "returned" /\ verified_uris = <<>>

IsSpace(c) == c \in {" ", "\t", "\n"}

RECURSIVE lstrip(_)
lstrip(v) == IF v # <<>> /\ IsSpace(Head(v)) THEN lstrip(Tail(v)) ELSE v

RECURSIVE rstrip(_)
rstrip(v) ==
    IF v # <<>> /\ IsSpace(v[Len(v)]) THEN rstrip(SubSeq(v, 1, Len(v) - 1)) ELSE v

\* str.strip()
strip(v) == rstrip(lstrip(v))

\* C7: generate_verified_song_list runs only for a vibe that is non-empty
\* after trimming; a blank vibe never reaches it.
C7_VibeValidated == InFunction => strip(vibe_input) # <<>>

\* C8: with the catalog fixed and no search failing, a run for the vibe of an
\* earlier run returns the list the earlier run returned.
C8_Determinism ==
    (/\ pc = "returned"
     /\ ~sp_raised
     /\ first_run.set
     /\ first_run.vibe = vibe_input) => verified_uris = first_run.uris

\* C9: once Logout was pressed, and until a code is exchanged, the session
\* holds no token, no run reaches the main interface, constructs the Spotify
\* client or generates, and every finished run shows the login screen.
C9_LogoutDiscards ==
    logged_out =>
        /\ token_info = "absent"
        /\ pc \in {"idle", "rerun"}
        /\ pc = "idle" => (screen = "login" /\ ~sp_client)

C9_Witness == logged_out /\ pc = "idle" /\ screen = "login" /\ query_code

Generated == pc \in {"returned", "done"} /\ VibeGiven(vibe_input)

\* C10: a list shorter than num_songs comes with the warning; an empty list
\* gives the error message and no playlist; create_spotify_playlist is never
\* called with an empty list.
C10_Surfaced ==
    /\ (Generated /\ Len(verified_uris) < num_songs) => "warning_short" \in shown
    /\ (pc = "done" /\ VibeGiven(vibe_input) /\ verified_uris = <<>>) =>
            (create_args = <<>> /\ "error_no_songs" \in shown)
    /\ \A i \in 1..Len(create_args) : create_args[i] # <<>>

C10_Witness ==
    /\ pc = "done"
    /\ VibeGiven(vibe_input)
    /\ num_songs > 0
    /\ verified_uris = <<>>
    /\ "warning_short" \in shown
    /\ "error_no_songs" \in shown

\* what the broad search gave that an option can be made of
Usable(items) == SelectSeq(items, LAMBDA it : ~it.null /\ it.artists # <<>>)

\* C11: FOUND with the first exact item iff the exact search is non-empty;
\* otherwise NEEDS_CLARIFICATION iff the broad search holds an item that is
\* not null and has artists, the options being those items in search order,
\* at most 5; otherwise NOT_FOUND without data.  The broad search is made
\* only when the exact search gave nothing.
C11_ThreeTier ==
    last_verification.called =>
        LET s == last_verification.suggestion
            r == last_verification.result
            exact == search_exact(catalog, s.track, s.artist)
            usable == Usable(search_broad(catalog, s.track))
        IN  /\ r.calls = 2 => exact = <<>>
            /\ r.status # "RAISED" =>
                /\ r.status = "FOUND" <=> exact # <<>>
                /\ r.status = "FOUND" =>
                        (r.item = <<exact[1]>> /\ r.options = <<>> /\ r.calls = 1)
                /\ r.status = "NEEDS_CLARIFICATION" <=> (exact = <<>> /\ usable # <<>>)
                /\ r.status = "NEEDS_CLARIFICATION" =>
                        /\ r.item = <<>>
                        /\ Len(r.options) = Len(usable)
                        /\ Len(r.options) <= 5
                        /\ \A i \in 1..Len(usable) :
                              r.options[i] = [track |-> usable[i].name,
                                              artist |-> usable[i].artists[1]]
                /\ r.status = "NOT_FOUND" <=> (exact = <<>> /\ usable = <<>>)
                /\ r.status = "NOT_FOUND" => (r.item = <<>> /\ r.options = <<>>)

\* the broad search was cut at 5 items, two of which no option can be made of
C11_Witness ==
    /\ last_verification.called
    /\ last_verification.result.status = "NEEDS_CLARIFICATION"
    /\ Len(last_verification.result.options) = 3
    /\ {"n1", "u4", "u5", "u6", "u7", "u8"} \subseteq catalog
    /\ last_verification.suggestion.artist = "a3"

RECURSIVE Flatten(_)
Flatten(ss) == IF ss = <<>> THEN <<>> ELSE Head(ss) \o Flatten(Tail(ss))

ItemsOf(calls) == [k \in 1..Len(calls) |-> calls[k].items]

CreateCalled == create_args # <<>> /\ create_result.called

LastUris == create_args[Len(create_args)]

\* C12: when no collaborator call fails, playlist_add_items is called with
\* chunks of 1 to 100 uris whose concatenation in call order is track_uris,
\* in ceil(len / 100) calls, all on the playlist just created.
C12_BatchedAdd ==
    (CreateCalled /\ create_result.fail_at = 0) =>
        /\ Flatten(ItemsOf(add_calls)) = LastUris
        /\ \A k \in 1..Len(add_calls) :
              /\ Len(add_calls[k].items) >= 1
              /\ Len(add_calls[k].items) <= 100
              /\ add_calls[k].playlist = create_result.playlist
        /\ 100 * Len(add_calls) >= Len(LastUris)
        /\ 100 * (Len(add_calls) - 1) < Len(LastUris)

\* two full chunks and a last chunk of one uri
C12_Witness ==
    /\ CreateCalled
    /\ create_result.fail_at = 0
    /\ Len(LastUris) = 201
    /\ Len(add_calls) = 3
    /\ Len(add_calls[3].items) = 1

IsPrefix(s, t) == Len(s) <= Len(t) /\ s = SubSeq(t, 1, Len(s))

\* C15: create_spotify_playlist returns the URL only if current_user,
\* user_playlist_create and every playlist_add_items call succeeded;
\* otherwise it returns None, nothing propagates, no chunk is added after the
\* call that raised, and the success message is shown only with a URL.
C15_FailureContained ==
    CreateCalled =>
        /\ create_result.url <=> create_result.fail_at = 0
        /\ create_result.fail_at \in {1, 2} => add_calls = <<>>
        /\ create_result.fail_at > 2 =>
              /\ Len(add_calls) = create_result.fail_at - 2
              /\ IsPrefix(Flatten(ItemsOf(add_calls)), LastUris)
        /\ "playlist_ready" \in shown <=> create_result.url
        /\ ~create_result.url => "error_playlist" \in shown

\* the first of three playlist_add_items calls raised
C15_Witness ==
    /\ CreateCalled
    /\ create_result.fail_at = 3
    /\ Len(LastUris) = 201
    /\ Len(add_calls) = 1
    /\ ~create_result.url
    /\ "playlist_ready" \notin shown

\* C13: once verified_tracks holds num_songs tracks the loop makes no further
\* LLM request and the function returns; it returns fewer than num_songs
\* tracks only after exactly 4 * num_songs attempts.
C13_EarlyStop ==
    /\ [][(pc = "gen" /\ Len(verified_tracks) >= num_songs) =>
            (llm_calls' = llm_calls /\ attempt' = attempt /\ pc' = "returned")]_vars
    /\ []((pc = "returned" /\ Len(verified_uris) < num_songs) =>
            (attempt = 4 * num_songs /\ llm_calls = 4 * num_songs))

\* two tracks asked for and found in the first two attempts of eight
C13_Witness ==
    /\ pc = "returned"
    /\ num_songs = 2
    /\ Len(verified_uris) = 2
    /\ attempt = 2
    /\ llm_calls = 2

\* C14: a suggestion whose string is in rejected_suggestions is never passed
\* to verify_song_on_spotify again, rejected_suggestions never holds the same
\* string twice, and an iteration appends at most one entry in total to
\* verified_tracks and rejected_suggestions (so that the two lists together
\* never hold more entries than iterations were made).
C14_NoRetry ==
    /\ ~retried
    /\ Distinct(rejected_suggestions)
    /\ Len(verified_tracks) + Len(rejected_suggestions) <= attempt

\* the parts of C14 the code keeps
C14_NoDuplicateOneAppend ==
    /\ Distinct(rejected_suggestions)
    /\ Len(verified_tracks) + Len(rejected_suggestions) <= attempt

AuthFailed == "error_expired" \in shown \/ "error_connect" \in shown

\* C16: a run constructs the Spotify client and reaches the main interface
\* only with a token in the session that is not expired when the run tests
\* it, an expired one being refreshed first and the refreshed one used; when
\* the refresh or current_user fails the token is deleted and the run
\* restarted, and the next run shows the login screen.
C16_TokenGating ==
    /\ [](sp_client => token_used = "valid")
    /\ []((pc \in {"gen", "returned", "raised", "done"}
            \/ "success_logged_in" \in shown) => sp_client)
    /\ [](AuthFailed => (token_info = "absent" /\ pc = "rerun"))
    /\ [][(token_info = "absent" /\ ~query_code) => ~sp_client']_vars
    /\ [][AuthFailed => (screen' = "login" /\ "info_login" \in shown'
                          /\ ~sp_client' /\ pc' = "idle")]_vars

\* the refresh of an expired token failed: the token is gone, a rerun is due
C16_Witness ==
    /\ "error_expired" \in shown
    /\ token_info = "absent"
    /\ pc = "rerun"
    /\ screen = "main"

====
